---- MODULE Spec2Model ----
(***************************************************************************)
(* Job orchestration of the line-draw backend: the in-memory job registry  *)
(* (services/job_manager.py), the HTTP handlers that create, start, query  *)
(* and delete jobs (api/routes.py), the background run of the physics      *)
(* integrator (core/simulation.py) that a start request schedules, the     *)
(* websocket handler that forwards a job's notifications                   *)
(* (api/websocket.py), and the integrator's generator step by step.        *)
(*                                                                         *)
(* Spec is the registry with its HTTP handlers and background runs, WsSpec *)
(* adds a websocket connection to it, SimSpec runs generators of the       *)
(* integrator on inputs drawn from small sets, RenderSpec runs the         *)
(* renderers (core/drawing.py) on trajectories drawn from a small set.     *)
(*                                                                         *)
(* Request handlers and the parts of run_job between two awaits run on the *)
(* event loop and are atomic with respect to each other.  The body of      *)
(* _run_simulation_sync runs on a thread-pool thread and interleaves with  *)
(* them at every attribute write and queue operation.  A background task   *)
(* added by start_job begins only after the start response was sent, an    *)
(* await at which the event loop may run other handlers and tasks.         *)
(***************************************************************************)
EXTENDS Integers, Sequences, FiniteSets, TLC

VARIABLES
    jobs,             \* JobManager.jobs: the ids currently in the registry
    allocated,        \* number of ids drawn from uuid4 so far
    status,           \* Job.status, per Job object
    progress,         \* Job.progress, per Job object
    params,           \* Job.params
    image,            \* Job.image
    trajectory,       \* Job.trajectory
    result_image,     \* Job.result_image
    error,            \* Job.error
    websocket_queue,  \* Job.websocket_queue (an unbounded queue.Queue)
    tasks,            \* the background tasks added by start_job, in order
    response,         \* the response of the last request handled
    sockets,          \* the websocket connections accepted so far, in order
    runs              \* the frames of the calls of simulate (of the renderer in RenderSpec)

jobFields == <<status, progress, params, image, trajectory, result_image,
               error, websocket_queue>>
jobVars == <<jobs, allocated, status, progress, params, image, trajectory,
            result_image, error, websocket_queue, tasks, response>>
vars == <<jobs, allocated, status, progress, params, image, trajectory,
          result_image, error, websocket_queue, tasks, response, sockets, runs>>

----------------------------------------------------------------------------
(* Bounds of the model *)

MaxJobs == 2
MaxStarts == 2
MaxIterMult == 2

(* Program constants *)

ProgressInterval == 10000
MinIterations == 10000
MaxIterations == 5000000
RenderSize == 800

JobIds == 1 .. MaxJobs

\* Optional values: None, or a value v held as Some(v)
None == << >>
Some(v) == <<v>>
Get(o) == o[1]

PENDING == "pending"
PROCESSING == "processing"
COMPLETED == "completed"
FAILED == "failed"
JobStatus == {PENDING, PROCESSING, COMPLETED, FAILED}

(* The iteration counts a start request may carry (SimulationParams). *)
IterationChoices ==
    {n \in {MinIterations * k : k \in 1 .. MaxIterMult} :
        n >= MinIterations /\ n <= MaxIterations}
ParamChoices == [iterations : IterationChoices]

----------------------------------------------------------------------------
(* Floating point percentages, kept exact as a fraction n / d. *)

RECURSIVE GCD(_, _)
GCD(a, b) == IF b = 0 THEN a ELSE GCD(b, a % b)

\* the fraction n / d in lowest terms
Pct(n, d) == [n |-> n \div GCD(n, d), d |-> d \div GCD(n, d)]
Pct0 == Pct(0, 1)
Pct100 == Pct(100, 1)
PctEq(a, b) == a.n * b.d = b.n * a.d
PctLe(a, b) == a.n * b.d <= b.n * a.d

----------------------------------------------------------------------------
(* The integrator's lazy sequence, seen from its consumer: `steps` is the  *)
(* number of loop iterations executed when the generator last yielded.     *)

\* the index i of the next iteration with i > 0 and i % progress_interval = 0
NextProgressIndex(steps) ==
    IF steps = 0 THEN ProgressInterval
    ELSE ((steps + ProgressInterval - 1) \div ProgressInterval) * ProgressInterval

\* whether the generator's next yield is a SimulationProgress
YieldsProgress(steps, iterations) == NextProgressIndex(steps) < iterations

SimulationProgress(i, iterations) ==
    [current_iteration |-> i,
     total_iterations |-> iterations,
     progress_percent |-> Pct(i * 100, iterations),
     trajectory_points |-> i + 2]

\* np.array(trajectory): the initial point and one point per iteration
FinalTrajectory(iterations) == [points |-> iterations + 1]

RenderTrajectoryToImage(traj) == [size |-> RenderSize, segments |-> traj.points - 1]
ImageToBase64(img) == [encoding |-> "base64", format |-> "PNG", of |-> img]
ImageToBytes(img) == [encoding |-> "bytes", format |-> "PNG", of |-> img]

----------------------------------------------------------------------------
(* Messages put on Job.websocket_queue *)

ProgressMessage(ev) ==
    [type |-> "progress",
     progress |-> ev.progress_percent,
     current_iteration |-> ev.current_iteration,
     total_iterations |-> ev.total_iterations,
     trajectory_points |-> ev.trajectory_points]
CompleteMessage(img) ==
    [type |-> "complete", status |-> "completed", image_base64 |-> ImageToBase64(img)]
ErrorMessage(msg) == [type |-> "error", error |-> msg]

SimulationError == "simulation raised"
NoOutputError == "Simulation produced no output"
NoImageError == "No image uploaded"

----------------------------------------------------------------------------
(* Responses *)

Response(op, j, code, detail) ==
    [op |-> op, job |-> j, code |-> code, detail |-> detail,
     status |-> None, progress |-> Pct0, error |-> None, result_url |-> None,
     body |-> None]

NoResponse == Response("none", 0, 0, "")

----------------------------------------------------------------------------
(* A fresh Job object: the dataclass defaults *)

InitJobs ==
    /\ jobs = {}
    /\ allocated = 0
    /\ status = [j \in JobIds |-> PENDING]
    /\ progress = [j \in JobIds |-> Pct0]
    /\ params = [j \in JobIds |-> None]
    /\ image = [j \in JobIds |-> None]
    /\ trajectory = [j \in JobIds |-> None]
    /\ result_image = [j \in JobIds |-> None]
    /\ error = [j \in JobIds |-> None]
    /\ websocket_queue = [j \in JobIds |-> << >>]
    /\ tasks = << >>
    /\ response = NoResponse

\* no websocket was opened and no generator of the integrator exists
Init ==
    /\ InitJobs
    /\ sockets = << >>
    /\ runs = << >>

----------------------------------------------------------------------------
(* JobManager.create_job, called by upload_image *)

\* variant: creating a job resets the status of every job
CreateJob_ResetsStatus(job_id) ==
    /\ jobs' = jobs \cup {job_id}
    /\ allocated' = allocated + 1
    /\ status' = [j \in JobIds |-> PENDING]
    /\ progress' = [progress EXCEPT ![job_id] = Pct0]
    /\ params' = [params EXCEPT ![job_id] = None]
    /\ image' = [image EXCEPT ![job_id] = Some("image")]
    /\ trajectory' = [trajectory EXCEPT ![job_id] = None]
    /\ result_image' = [result_image EXCEPT ![job_id] = None]
    /\ error' = [error EXCEPT ![job_id] = None]
    /\ websocket_queue' = [websocket_queue EXCEPT ![job_id] = << >>]

CreateJob(job_id) ==
    /\ jobs' = jobs \cup {job_id}
    /\ allocated' = allocated + 1
    /\ status' = [status EXCEPT ![job_id] = PENDING]
    /\ progress' = [progress EXCEPT ![job_id] = Pct0]
    /\ params' = [params EXCEPT ![job_id] = None]
    /\ image' = [image EXCEPT ![job_id] = Some("image")]
    /\ trajectory' = [trajectory EXCEPT ![job_id] = None]
    /\ result_image' = [result_image EXCEPT ![job_id] = None]
    /\ error' = [error EXCEPT ![job_id] = None]
    /\ websocket_queue' = [websocket_queue EXCEPT ![job_id] = << >>]

UploadImage(decodable) ==
    /\ allocated < MaxJobs
    /\ IF decodable
       THEN /\ CreateJob(allocated + 1)
            /\ response' = Response("upload", allocated + 1, 200, "Image uploaded successfully")
       ELSE /\ response' = Response("upload", 0, 400, "File must be an image")
            /\ UNCHANGED <<jobs, allocated, jobFields>>
    /\ UNCHANGED tasks

----------------------------------------------------------------------------
(* start_job *)

\* variant: the check for a completed job is missing
StartJob_NoCompletedCheck(job_id, p) ==
    IF job_id \notin jobs
    THEN /\ response' = Response("start", job_id, 404, "Job not found")
         /\ UNCHANGED <<jobs, allocated, jobFields, tasks>>
    ELSE IF status[job_id] = PROCESSING
    THEN /\ response' = Response("start", job_id, 400, "Job is already processing")
         /\ UNCHANGED <<jobs, allocated, jobFields, tasks>>
    ELSE /\ Len(tasks) < MaxStarts
         /\ tasks' = Append(tasks, [job |-> job_id, params |-> p,
                                    pc |-> "scheduled", steps |-> 0,
                                    result |-> None])
         /\ response' = [Response("start", job_id, 200, "Processing started")
                            EXCEPT !.status = Some(PROCESSING)]
         /\ UNCHANGED <<jobs, allocated, jobFields>>

StartJob(job_id, p) ==
    IF job_id \notin jobs
    THEN /\ response' = Response("start", job_id, 404, "Job not found")
         /\ UNCHANGED <<jobs, allocated, jobFields, tasks>>
    ELSE IF status[job_id] = PROCESSING
    THEN /\ response' = Response("start", job_id, 400, "Job is already processing")
         /\ UNCHANGED <<jobs, allocated, jobFields, tasks>>
    ELSE IF status[job_id] = COMPLETED
    THEN /\ response' = Response("start", job_id, 400, "Job is already completed")
         /\ UNCHANGED <<jobs, allocated, jobFields, tasks>>
    ELSE /\ Len(tasks) < MaxStarts
         /\ tasks' = Append(tasks, [job |-> job_id, params |-> p,
                                    pc |-> "scheduled", steps |-> 0,
                                    result |-> None])
         /\ response' = [Response("start", job_id, 200, "Processing started")
                            EXCEPT !.status = Some(PROCESSING)]
         /\ UNCHANGED <<jobs, allocated, jobFields>>

----------------------------------------------------------------------------
(* get_job_status *)

StatusResponse(job_id) ==
    [Response("status", job_id, 200, "") EXCEPT
        !.status = Some(status[job_id]),
        !.progress = progress[job_id],
        !.error = error[job_id],
        !.result_url = IF status[job_id] = COMPLETED THEN Some(job_id) ELSE None]

\* variant: the query takes the oldest message off the job's queue
GetJobStatus_TakesMessage(job_id) ==
    /\ IF job_id \notin jobs
       THEN /\ response' = Response("status", job_id, 404, "Job not found")
            /\ UNCHANGED websocket_queue
       ELSE /\ response' = StatusResponse(job_id)
            /\ websocket_queue' =
                  [websocket_queue EXCEPT
                      ![job_id] = IF @ = << >> THEN @ ELSE Tail(@)]
    /\ UNCHANGED <<jobs, allocated, status, progress, params, image, trajectory,
                   result_image, error, tasks>>

GetJobStatus(job_id) ==
    /\ IF job_id \notin jobs
       THEN response' = Response("status", job_id, 404, "Job not found")
       ELSE response' = StatusResponse(job_id)
    /\ UNCHANGED <<jobs, allocated, jobFields, tasks>>

(* get_job_result *)

\* variant: the check of the job's status is missing
GetJobResult_NoStatusCheck(job_id) ==
    /\ IF job_id \notin jobs
       THEN response' = Response("result", job_id, 404, "Job not found")
       ELSE IF result_image[job_id] = None
       THEN response' = Response("result", job_id, 404, "Result image not found")
       ELSE response' = [Response("result", job_id, 200, "") EXCEPT
                            !.body = Some(ImageToBytes(Get(result_image[job_id])))]
    /\ UNCHANGED <<jobs, allocated, jobFields, tasks>>

GetJobResult(job_id) ==
    /\ IF job_id \notin jobs
       THEN response' = Response("result", job_id, 404, "Job not found")
       ELSE IF status[job_id] # COMPLETED
       THEN response' = Response("result", job_id, 400, "Job is not completed")
       ELSE IF result_image[job_id] = None
       THEN response' = Response("result", job_id, 404, "Result image not found")
       ELSE response' = [Response("result", job_id, 200, "") EXCEPT
                            !.body = Some(ImageToBytes(Get(result_image[job_id])))]
    /\ UNCHANGED <<jobs, allocated, jobFields, tasks>>

(* JobManager.get_result_image_base64 *)

GetResultImageBase64(job_id) ==
    IF job_id \in jobs /\ result_image[job_id] # None
    THEN Some(ImageToBase64(Get(result_image[job_id])))
    ELSE None

(* get_job_result_base64 *)

GetJobResultBase64(job_id) ==
    /\ IF job_id \notin jobs
       THEN response' = Response("result_base64", job_id, 404, "Job not found")
       ELSE IF status[job_id] # COMPLETED
       THEN response' = Response("result_base64", job_id, 400, "Job is not completed")
       ELSE IF GetResultImageBase64(job_id) = None
       THEN response' = Response("result_base64", job_id, 404, "Result image not found")
       ELSE response' = [Response("result_base64", job_id, 200, "") EXCEPT
                            !.body = GetResultImageBase64(job_id)]
    /\ UNCHANGED <<jobs, allocated, jobFields, tasks>>

----------------------------------------------------------------------------
(* delete_job and JobManager.delete_job *)

\* variant: deleting a job empties the registry
DeleteJob_RemovesAll(job_id) ==
    /\ IF job_id \in jobs
       THEN /\ jobs' = {}
            /\ response' = Response("delete", job_id, 200, "Job deleted successfully")
       ELSE /\ response' = Response("delete", job_id, 404, "Job not found")
            /\ UNCHANGED jobs
    /\ UNCHANGED <<allocated, jobFields, tasks>>

DeleteJob(job_id) ==
    /\ IF job_id \in jobs
       THEN /\ jobs' = jobs \ {job_id}
            /\ response' = Response("delete", job_id, 200, "Job deleted successfully")
       ELSE /\ response' = Response("delete", job_id, 404, "Job not found")
            /\ UNCHANGED jobs
    /\ UNCHANGED <<allocated, jobFields, tasks>>

----------------------------------------------------------------------------
(* JobManager.run_job, the background task.  pc of a task:                 *)
(*   scheduled  added by start_job, run_job not yet begun                  *)
(*   running    _run_simulation_sync is executing on a pool thread         *)
(*   put        the thread wrote job.progress and is about to queue it     *)
(*   returned   the thread returned the trajectory; run_job not resumed    *)
(*   raised     the thread raised; run_job not resumed                     *)
(*   done       run_job returned                                           *)

SetPc(t, pc) == [tasks EXCEPT ![t].pc = pc]

\* run_job up to its await of run_in_executor
RunJobBegin(t) ==
    LET job_id == tasks[t].job IN
    /\ tasks[t].pc = "scheduled"
    /\ IF job_id \notin jobs
       THEN /\ tasks' = SetPc(t, "done")
            /\ UNCHANGED jobFields
       ELSE IF image[job_id] = None
       THEN /\ status' = [status EXCEPT ![job_id] = FAILED]
            /\ error' = [error EXCEPT ![job_id] = Some(NoImageError)]
            /\ tasks' = SetPc(t, "done")
            /\ UNCHANGED <<progress, params, image, trajectory, result_image,
                           websocket_queue>>
       ELSE /\ params' = [params EXCEPT ![job_id] = Some(tasks[t].params)]
            /\ status' = [status EXCEPT ![job_id] = PROCESSING]
            /\ tasks' = SetPc(t, "running")
            /\ UNCHANGED <<progress, image, trajectory, result_image, error,
                           websocket_queue>>
    /\ UNCHANGED <<jobs, allocated, response>>

\* variant: the loop stops at the first progress interval it reaches
WorkerAdvance_StopsEarly(t) ==
    LET job_id == tasks[t].job
        n == tasks[t].params.iterations
        i == NextProgressIndex(tasks[t].steps)
    IN
    /\ tasks[t].pc = "running"
    /\ tasks' = [tasks EXCEPT
                    ![t].pc = "returned",
                    ![t].steps = IF i < n THEN i + 1 ELSE n,
                    ![t].result = Some(FinalTrajectory(IF i < n THEN i + 1 ELSE n))]
    /\ UNCHANGED <<jobs, allocated, jobFields, response>>

\* _run_simulation_sync: the generator runs to its next yield.  A progress
\* event is written to job.progress; the final array ends the loop.
WorkerAdvance(t) ==
    LET job_id == tasks[t].job
        n == tasks[t].params.iterations
        i == NextProgressIndex(tasks[t].steps)
    IN
    /\ tasks[t].pc = "running"
    /\ IF YieldsProgress(tasks[t].steps, n)
       THEN /\ progress' = [progress EXCEPT
                               ![job_id] = SimulationProgress(i, n).progress_percent]
            /\ tasks' = [tasks EXCEPT ![t].pc = "put", ![t].steps = i + 1]
       ELSE /\ tasks' = [tasks EXCEPT ![t].pc = "returned", ![t].steps = n,
                                      ![t].result = Some(FinalTrajectory(n))]
            /\ UNCHANGED progress
    /\ UNCHANGED <<jobs, allocated, status, params, image, trajectory,
                   result_image, error, websocket_queue, response>>

\* _run_simulation_sync: put_nowait of the progress message
WorkerPut(t) ==
    LET job_id == tasks[t].job
        ev == SimulationProgress(tasks[t].steps - 1, tasks[t].params.iterations)
    IN
    /\ tasks[t].pc = "put"
    /\ websocket_queue' = [websocket_queue EXCEPT
                              ![job_id] = Append(@, ProgressMessage(ev))]
    /\ tasks' = SetPc(t, "running")
    /\ UNCHANGED <<jobs, allocated, status, progress, params, image, trajectory,
                   result_image, error, response>>

\* run_simulation raises inside the pool thread (preprocessing or integration)
WorkerRaise(t) ==
    /\ tasks[t].pc = "running"
    /\ tasks' = SetPc(t, "raised")
    /\ UNCHANGED <<jobs, allocated, jobFields, response>>

\* run_job's except clause
Fail(job_id, msg) ==
    /\ status' = [status EXCEPT ![job_id] = FAILED]
    /\ error' = [error EXCEPT ![job_id] = Some(msg)]
    /\ websocket_queue' = [websocket_queue EXCEPT
                              ![job_id] = Append(@, ErrorMessage(msg))]

\* variant: the finished run stores its job in the registry again
RunJobFinish_StoresJob(t) ==
    LET job_id == tasks[t].job
        traj == Get(tasks[t].result)
        img == RenderTrajectoryToImage(traj)
    IN
    /\ tasks[t].pc = "returned"
    /\ IF tasks[t].result # None
       THEN /\ trajectory' = [trajectory EXCEPT ![job_id] = Some(traj)]
            /\ result_image' = [result_image EXCEPT ![job_id] = Some(img)]
            /\ status' = [status EXCEPT ![job_id] = COMPLETED]
            /\ progress' = [progress EXCEPT ![job_id] = Pct100]
            /\ websocket_queue' = [websocket_queue EXCEPT
                                      ![job_id] = Append(@, CompleteMessage(img))]
            /\ UNCHANGED error
       ELSE /\ Fail(job_id, NoOutputError)
            /\ UNCHANGED <<progress, trajectory, result_image>>
    /\ tasks' = SetPc(t, "done")
    /\ jobs' = jobs \cup {job_id}
    /\ UNCHANGED <<allocated, params, image, response>>

\* run_job resumed with the value the pool thread returned
RunJobFinish(t) ==
    LET job_id == tasks[t].job
        traj == Get(tasks[t].result)
        img == RenderTrajectoryToImage(traj)
    IN
    /\ tasks[t].pc = "returned"
    /\ IF tasks[t].result # None
       THEN /\ trajectory' = [trajectory EXCEPT ![job_id] = Some(traj)]
            /\ result_image' = [result_image EXCEPT ![job_id] = Some(img)]
            /\ status' = [status EXCEPT ![job_id] = COMPLETED]
            /\ progress' = [progress EXCEPT ![job_id] = Pct100]
            /\ websocket_queue' = [websocket_queue EXCEPT
                                      ![job_id] = Append(@, CompleteMessage(img))]
            /\ UNCHANGED error
       ELSE /\ Fail(job_id, NoOutputError)
            /\ UNCHANGED <<progress, trajectory, result_image>>
    /\ tasks' = SetPc(t, "done")
    /\ UNCHANGED <<jobs, allocated, params, image, response>>

\* run_job resumed with the exception of the pool thread
RunJobExcept(t) ==
    LET job_id == tasks[t].job IN
    /\ tasks[t].pc = "raised"
    /\ Fail(job_id, SimulationError)
    /\ tasks' = SetPc(t, "done")
    /\ UNCHANGED <<jobs, allocated, progress, params, image, trajectory,
                   result_image, response>>

----------------------------------------------------------------------------
Next ==
    \/ \E d \in BOOLEAN : UploadImage(d) /\ UNCHANGED <<sockets, runs>>
    \/ \E j \in JobIds, p \in ParamChoices : StartJob(j, p) /\ UNCHANGED <<sockets, runs>>
    \/ \E j \in JobIds : GetJobStatus(j) /\ UNCHANGED <<sockets, runs>>
    \/ \E j \in JobIds : GetJobResult(j) /\ UNCHANGED <<sockets, runs>>
    \/ \E j \in JobIds : GetJobResultBase64(j) /\ UNCHANGED <<sockets, runs>>
    \/ \E j \in JobIds : DeleteJob(j) /\ UNCHANGED <<sockets, runs>>
    \/ \E t \in 1 .. Len(tasks) : RunJobBegin(t) /\ UNCHANGED <<sockets, runs>>
    \/ \E t \in 1 .. Len(tasks) : WorkerAdvance(t) /\ UNCHANGED <<sockets, runs>>
    \/ \E t \in 1 .. Len(tasks) : WorkerPut(t) /\ UNCHANGED <<sockets, runs>>
    \/ \E t \in 1 .. Len(tasks) : WorkerRaise(t) /\ UNCHANGED <<sockets, runs>>
    \/ \E t \in 1 .. Len(tasks) : RunJobFinish(t) /\ UNCHANGED <<sockets, runs>>
    \/ \E t \in 1 .. Len(tasks) : RunJobExcept(t) /\ UNCHANGED <<sockets, runs>>

Spec == Init /\ [][Next]_vars

(* The event loop resumes every background task and the thread pool runs   *)
(* every submitted call: a task that can take a step eventually takes one. *)
TaskStep(t) ==
    /\ t \in 1 .. Len(tasks)
    /\ \/ RunJobBegin(t)
       \/ WorkerAdvance(t)
       \/ WorkerPut(t)
       \/ WorkerRaise(t)
       \/ RunJobFinish(t)
       \/ RunJobExcept(t)
    /\ UNCHANGED <<sockets, runs>>

FairSpec == Spec /\ \A t \in 1 .. MaxStarts : WF_vars(TaskStep(t))

----------------------------------------------------------------------------
(* Properties *)

TaskIds == 1 .. Len(tasks)
Terminal(j) == status[j] \in {COMPLETED, FAILED}

\* the runs that began on job j and have not returned
ActiveRuns(j) ==
    {t \in TaskIds : tasks[t].job = j
                     /\ tasks[t].pc \in {"running", "put", "returned", "raised"}}

(* C1: at most one integrator run is active for a job at any time. *)
C1_AtMostOneActiveRun ==
    \A j \in JobIds : Cardinality(ActiveRuns(j)) <= 1

AllowedTransitions ==
    {<<PENDING, PROCESSING>>, <<PROCESSING, COMPLETED>>, <<PROCESSING, FAILED>>}

(* C2: a job's status changes only along Pending->Processing,              *)
(* Processing->Completed and Processing->Failed, so a Completed or Failed  *)
(* status never changes again.                                             *)
C2_StatusTransitions ==
    [][\A j \in JobIds :
          status'[j] # status[j] => <<status[j], status'[j]>> \in AllowedTransitions]_vars

(* C3: once start has answered with success, the job is no longer Pending. *)
C3_StartedJobNotPending ==
    (response.op = "start" /\ response.code = 200)
        => status[response.job] # PENDING

\* start is refused for job_id in the current state
StartRefused(job_id) ==
    job_id \notin jobs \/ status[job_id] \in {PROCESSING, COMPLETED}

(* C4: start on an unknown id answers not found (404), start on a          *)
(* Processing or Completed job answers invalid state (400); in both cases  *)
(* no run is scheduled and the registry and every job field are unchanged. *)
C4_RefusedStartChangesNothing ==
    [][\A j \in JobIds, p \in ParamChoices :
          (StartJob(j, p) /\ StartRefused(j)) =>
              /\ response'.op = "start" /\ response'.job = j
              /\ response'.code = (IF j \notin jobs THEN 404 ELSE 400)
              /\ UNCHANGED <<jobs, allocated, jobFields, tasks>>]_vars

\* a start was refused on a Completed job while some id is not registered
C4_Witness ==
    /\ response.op = "start" /\ response.code = 400
    /\ response.job \in jobs /\ status[response.job] = COMPLETED
    /\ \E j \in JobIds : j \notin jobs

(* C5: start is refused with invalid state (400) for every job whose       *)
(* status is not Pending, a Failed job included, and schedules no run.     *)
C5_StartRefusedUnlessPending ==
    [][\A j \in JobIds, p \in ParamChoices :
          (StartJob(j, p) /\ j \in jobs /\ status[j] # PENDING) =>
              (response'.code = 400 /\ UNCHANGED tasks)]_vars

(* C6: a Completed job has progress 100, a stored trajectory and a stored  *)
(* result image.                                                           *)
C6_CompletedJobIsWhole ==
    \A j \in JobIds :
        status[j] = COMPLETED =>
            /\ PctEq(progress[j], Pct100)
            /\ trajectory[j] # None
            /\ result_image[j] # None

(* C7: a job that Failed on an error of the simulation has its error set,  *)
(* a failure notification on its channel, and neither a stored trajectory  *)
(* nor a stored result image.                                              *)
C7_FailedJobKeepsNothing ==
    \A j \in JobIds :
        (status[j] = FAILED /\ error[j] = Some(SimulationError)) =>
            /\ \E k \in 1 .. Len(websocket_queue[j]) :
                  websocket_queue[j][k] = ErrorMessage(SimulationError)
            /\ trajectory[j] = None
            /\ result_image[j] = None

\* what a result query on job_id must answer, from the state it was issued in
ResultAnswer(op, job_id) ==
    /\ response'.op = op /\ response'.job = job_id
    /\ (response'.code = 200) <=> (job_id \in jobs /\ status[job_id] = COMPLETED)
    /\ (response'.body # None) <=> (response'.code = 200)
    /\ (job_id \in jobs /\ status[job_id] \in {PENDING, PROCESSING, FAILED})
          => response'.code = 400
    /\ job_id \notin jobs => response'.code = 404

(* C8: a result query returns an image if and only if the job exists and   *)
(* is Completed; for a Pending, Processing or Failed job it answers not    *)
(* ready (400), for an unknown id not found (404).                         *)
C8_ResultIffCompleted ==
    [][\A j \in JobIds :
          /\ GetJobResult(j) => ResultAnswer("result", j)
          /\ GetJobResultBase64(j) => ResultAnswer("result_base64", j)]_vars

\* a result query returned the image of a Completed job
C8_Witness ==
    /\ response.op = "result" /\ response.code = 200
    /\ response.body = Some(ImageToBytes(Get(result_image[response.job])))

(* C9: the status and result queries change neither the registry, nor a    *)
(* field of a job, nor the contents of a progress channel.                 *)
C9_QueriesChangeNothing ==
    [][\A j \in JobIds :
          (GetJobStatus(j) \/ GetJobResult(j) \/ GetJobResultBase64(j)) =>
              UNCHANGED <<jobs, allocated, jobFields, tasks>>]_vars

\* a status query answered for a Processing job with messages on its channel
C9_Witness ==
    /\ response.op = "status" /\ response.code = 200
    /\ response.status = Some(PROCESSING)
    /\ websocket_queue[response.job] # << >>

\* every run scheduled for job j has returned, and there is one
RunsEnded(j) ==
    /\ \E t \in TaskIds : tasks[t].job = j
    /\ \A t \in TaskIds : tasks[t].job = j => tasks[t].pc = "done"

(* C10 as claimed: every job for which start succeeded ends Completed or   *)
(* Failed (stated on the state in which all its runs have returned).       *)
C10_StartedJobEndsTerminal ==
    \A j \in JobIds : RunsEnded(j) => Terminal(j)

TaskAt(t, pcs) == t <= Len(tasks) /\ tasks[t].pc \in pcs

(* C10 amended: under fair scheduling every job for which start succeeded  *)
(* eventually is Completed or Failed unless it was deleted before its      *)
(* background run began; a run that began always ends so, deleted or not.  *)
(* The integrator returns its trajectory only after exactly iterations     *)
(* steps, with iterations + 1 points.                                      *)
C10_RunsEnd ==
    /\ \A t \in 1 .. MaxStarts :
          TaskAt(t, {"scheduled"}) ~>
              (t <= Len(tasks)
                 /\ (Terminal(tasks[t].job)
                       \/ (tasks[t].pc = "done" /\ tasks[t].job \notin jobs)))
    /\ \A t \in 1 .. MaxStarts :
          TaskAt(t, {"running"}) ~> (t <= Len(tasks) /\ Terminal(tasks[t].job))
    /\ [](\A t \in TaskIds :
            tasks[t].pc = "returned" =>
                /\ tasks[t].steps = tasks[t].params.iterations
                /\ tasks[t].result =
                      Some(FinalTrajectory(tasks[t].params.iterations)))

\* a run with a progress event ran all its iterations and completed its job
C10_Witness ==
    \E t \in TaskIds :
        /\ tasks[t].pc = "done"
        /\ tasks[t].steps = tasks[t].params.iterations
        /\ tasks[t].steps > ProgressInterval
        /\ status[tasks[t].job] = COMPLETED

----------------------------------------------------------------------------
(* Notifications.  No action of Spec takes a message off a queue, so in    *)
(* Spec websocket_queue[j] is the sequence of all messages ever put on the *)
(* channel of job j, in the order of the puts.                             *)

IsTerminalMessage(m) == m.type \in {"complete", "error"}

(* C11: over the lifetime of a job at most one terminal notification       *)
(* (complete or error) is put on its channel and nothing is put after it:  *)
(* a terminal notification is the last message ever put.                   *)
C11_OneTerminalNotificationLast ==
    \A j \in JobIds :
        \A k \in 1 .. Len(websocket_queue[j]) :
            IsTerminalMessage(websocket_queue[j][k]) => k = Len(websocket_queue[j])

----------------------------------------------------------------------------
(* websocket_job_progress, one connection per element of sockets.  The     *)
(* handler keeps a reference to the Job object it looked up; the fields of *)
(* a deleted job stay readable under its id, which is never reused.  pc:   *)
(*   opened   the initial status was sent; job.status not yet examined     *)
(*   polling  in the loop, between two iterations (asyncio.sleep)          *)
(*   closed   the handler returned                                         *)
(* sent is the sequence of the messages sent on the connection other than  *)
(* heartbeats, whose number has no bound; closes counts the calls of       *)
(* websocket.close().  connected tells whether the client is still there:  *)
(* a send_json after the client has gone raises WebSocketDisconnect, which *)
(* the handler catches before its finally clause.                          *)

MaxSockets == 1
MaxWsJobs == 1
WsIterMult == 3
HeartbeatEvery == 5

WsParamChoices == [iterations : {MinIterations * WsIterMult}]
SocketIds == 1 .. Len(sockets)

StatusMessage(job_id) ==
    [type |-> "status", status |-> status[job_id], progress |-> progress[job_id]]
\* the complete message the handler builds itself from the registry
StoredCompleteMessage(job_id) ==
    [type |-> "complete", status |-> "completed",
     image_base64 |-> GetResultImageBase64(job_id)]
StoredErrorMessage(job_id) ==
    ErrorMessage(IF error[job_id] # None THEN Get(error[job_id]) ELSE "Unknown error")

\* send_json
Send(log, m) == Append(log, m)

\* accept, the lookup of the job and the initial status message
WsConnect(job_id) ==
    /\ Len(sockets) < MaxSockets
    /\ sockets' = Append(sockets,
          IF job_id \notin jobs
          THEN [job |-> job_id, pc |-> "closed", heartbeat_counter |-> 0,
                sent |-> <<ErrorMessage("Job not found")>>, closes |-> 1,
                connected |-> TRUE]
          ELSE [job |-> job_id, pc |-> "opened", heartbeat_counter |-> 0,
                sent |-> <<StatusMessage(job_id)>>, closes |-> 0,
                connected |-> TRUE])
    /\ UNCHANGED <<jobVars, runs>>

\* the client goes away while the handler is suspended
ClientDisconnect(s) ==
    /\ sockets[s].pc # "closed"
    /\ sockets[s].connected
    /\ sockets' = [sockets EXCEPT ![s].connected = FALSE]
    /\ UNCHANGED <<jobVars, runs>>

\* the handler sends m and then returns or breaks out of its loop, calling
\* close `closes` times; the send raises when the client has gone, and
\* only the finally clause closes
SendLast(sock, m, closes) ==
    IF sock.connected
    THEN [sock EXCEPT !.sent = Send(@, m), !.closes = @ + closes, !.pc = "closed"]
    ELSE [sock EXCEPT !.closes = @ + 1, !.pc = "closed"]

\* the handler sends m and goes on
SendOn(sock, m) ==
    IF sock.connected
    THEN [sock EXCEPT !.sent = Send(@, m)]
    ELSE [sock EXCEPT !.closes = @ + 1, !.pc = "closed"]

\* the checks of job.status made before the loop; the return inside the
\* try block runs the finally clause, a second close
WsCheckStatus(s) ==
    LET job_id == sockets[s].job IN
    /\ sockets[s].pc = "opened"
    /\ sockets' =
          IF status[job_id] = COMPLETED
          THEN [sockets EXCEPT ![s] = SendLast(@, StoredCompleteMessage(job_id), 2)]
          ELSE IF status[job_id] = FAILED
          THEN [sockets EXCEPT ![s] = SendLast(@, StoredErrorMessage(job_id), 2)]
          ELSE [sockets EXCEPT ![s].pc = "polling"]
    /\ UNCHANGED <<jobVars, runs>>

\* one iteration of the loop: forward the oldest message of the queue, or
\* on an empty queue examine job.status; the heartbeat sent on every fifth
\* empty poll resets the counter
WsPoll(s) ==
    LET job_id == sockets[s].job
        q == websocket_queue[job_id]
        beats == [sockets[s] EXCEPT !.heartbeat_counter = @ + 1]
    IN
    /\ sockets[s].pc = "polling"
    /\ IF q # << >>
       THEN /\ websocket_queue' = [websocket_queue EXCEPT ![job_id] = Tail(q)]
            /\ sockets' =
                  IF Head(q).type \in {"complete", "error"}
                  THEN [sockets EXCEPT ![s] = SendLast(@, Head(q), 1)]
                  ELSE [sockets EXCEPT ![s] = SendOn(@, Head(q))]
       ELSE /\ UNCHANGED websocket_queue
            /\ sockets' =
                  IF status[job_id] = COMPLETED
                  THEN [sockets EXCEPT
                          ![s] = SendLast(beats, StoredCompleteMessage(job_id), 1)]
                  ELSE IF status[job_id] = FAILED
                  THEN [sockets EXCEPT
                          ![s] = SendLast(beats, StoredErrorMessage(job_id), 1)]
                  ELSE IF beats.heartbeat_counter >= HeartbeatEvery
                  THEN [sockets EXCEPT
                          ![s] = IF @.connected
                                 THEN [@ EXCEPT !.heartbeat_counter = 0]
                                 ELSE [beats EXCEPT !.closes = @ + 1, !.pc = "closed"]]
                  ELSE [sockets EXCEPT ![s] = beats]
    /\ UNCHANGED <<jobs, allocated, status, progress, params, image, trajectory,
                   result_image, error, tasks, response, runs>>

WsNext ==
    \/ allocated < MaxWsJobs /\ UploadImage(TRUE) /\ UNCHANGED <<sockets, runs>>
    \/ \E j \in JobIds, p \in WsParamChoices : StartJob(j, p) /\ UNCHANGED <<sockets, runs>>
    \/ \E j \in JobIds : DeleteJob(j) /\ UNCHANGED <<sockets, runs>>
    \/ \E t \in 1 .. Len(tasks) : TaskStep(t)
    \/ \E j \in JobIds : WsConnect(j)
    \/ \E s \in SocketIds : WsCheckStatus(s)
    \/ \E s \in SocketIds : WsPoll(s)
    \/ \E s \in SocketIds : ClientDisconnect(s)

WsSpec == Init /\ [][WsNext]_vars

\* the current_iteration values of the progress messages sent on connection s
ProgressSent(s) == SelectSeq(sockets[s].sent, LAMBDA m : m.type = "progress")

(* C12: on every connection the current_iteration values of the progress   *)
(* messages sent form a non-decreasing sequence.                           *)
C12_ProgressNonDecreasing ==
    \A s \in SocketIds :
        \A a, b \in 1 .. Len(ProgressSent(s)) :
            a < b => ProgressSent(s)[a].current_iteration
                        <= ProgressSent(s)[b].current_iteration

\* a terminal notification can still reach a connection polling for job j:
\* one awaits on the channel, the status is terminal, a run of j has not
\* returned, or j is registered and may yet be started
TerminalCanCome(j) ==
    \/ \E k \in 1 .. Len(websocket_queue[j]) : IsTerminalMessage(websocket_queue[j][k])
    \/ Terminal(j)
    \/ \E t \in TaskIds : tasks[t].job = j /\ tasks[t].pc # "done"
    \/ j \in jobs

(* C13: every subscription opened on an existing job eventually is sent a  *)
(* terminal notification and ends, whatever starts and deletes interleave  *)
(* with it.  Stated on finite runs: a connection still in its loop is never *)
(* in a state from which no terminal notification can come.                *)
C13_SubscriptionCanEnd ==
    \A s \in SocketIds :
        (sockets[s].pc = "polling" /\ sockets[s].connected)
            => TerminalCanCome(sockets[s].job)

----------------------------------------------------------------------------
(* Deletion and creation *)

\* the fields and the channel of the Job object with id j
JobObject(j) ==
    <<status[j], progress[j], params[j], image[j], trajectory[j],
      result_image[j], error[j], websocket_queue[j]>>

\* id j was registered once and has been deleted
Deleted(j) == j <= allocated /\ j \notin jobs

(* C14: a run whose job was deleted while the run was scheduled or active  *)
(* leaves the registry alone: no step registers a deleted id again, the    *)
(* status and result queries on a deleted id answer not found (404), and a *)
(* step of a run changes no field and no channel of another job.           *)
C14_DeletedJobStaysDeleted ==
    [][/\ \A j \in JobIds : Deleted(j) => j \notin jobs'
       /\ \A j \in JobIds :
             (Deleted(j) /\ (GetJobStatus(j) \/ GetJobResult(j) \/ GetJobResultBase64(j)))
                 => (response'.job = j /\ response'.code = 404)
       /\ \A t \in TaskIds :
             TaskStep(t) =>
                 /\ jobs' = jobs
                 /\ \A k \in JobIds \ {tasks[t].job} : JobObject(k)' = JobObject(k)]_vars

\* job 1 was deleted while its run was active: the run has returned its
\* trajectory to run_job, which is about to write the outcome, a status
\* query on the id has answered not found, and job 2 is registered
C14_Witness ==
    /\ \E t \in TaskIds :
          /\ tasks[t].pc = "returned"
          /\ Deleted(tasks[t].job)
          /\ response.op = "status" /\ response.code = 404
          /\ response.job = tasks[t].job
    /\ \E k \in jobs : TRUE

(* C15: delete of a registered id removes exactly that id from the         *)
(* registry and changes no other job; delete of an id that is not          *)
(* registered answers not found (404) and changes nothing; after either    *)
(* the id is not registered, so a second delete of it answers not found.   *)
C15_DeleteRemovesExactlyOne ==
    [][\A j \in JobIds :
          DeleteJob(j) =>
              /\ response'.op = "delete" /\ response'.job = j
              /\ IF j \in jobs
                 THEN response'.code = 200 /\ jobs' = jobs \ {j}
                 ELSE response'.code = 404 /\ jobs' = jobs
              /\ j \notin jobs'
              /\ \A k \in JobIds : JobObject(k)' = JobObject(k)
              /\ UNCHANGED <<allocated, tasks>>]_vars

\* a second delete of an id answered not found while another job, with a
\* run scheduled or begun, stayed registered
C15_Witness ==
    /\ response.op = "delete" /\ response.code = 404
    /\ Deleted(response.job)
    /\ \E t \in TaskIds : tasks[t].job \in jobs

(* C16: create registers exactly one job, under an id that was never       *)
(* registered before, with status Pending, progress 0, no trajectory, no   *)
(* result image, no error and an empty channel, and changes no other job.  *)
C16_CreateAddsOneFreshJob ==
    [][UploadImage(TRUE) =>
          \E j \in JobIds :
              /\ j \notin jobs /\ ~Deleted(j)
              /\ jobs' = jobs \cup {j}
              /\ response'.code = 200 /\ response'.job = j
              /\ status'[j] = PENDING
              /\ PctEq(progress'[j], Pct0)
              /\ image'[j] # None
              /\ trajectory'[j] = None
              /\ result_image'[j] = None
              /\ error'[j] = None
              /\ websocket_queue'[j] = << >>
              /\ \A k \in JobIds \ {j} : JobObject(k)' = JobObject(k)
              /\ UNCHANGED tasks]_vars

\* a job was created while an earlier job was Completed, with its
\* notification on its channel
C16_Witness ==
    /\ response.op = "upload" /\ response.code = 200
    /\ status[response.job] = PENDING
    /\ \E k \in jobs \ {response.job} :
          status[k] = COMPLETED /\ websocket_queue[k] # << >>

----------------------------------------------------------------------------
(* PhysicsSimulator.simulate, step by step.  Each element of runs is the   *)
(* frame of one generator: its arguments and its local variables.          *)
(* Coordinates, velocities and accelerations are fixed-point numbers with  *)
(* unit 1e-8, so that 1.0 is One; the rounding of float64 is not modelled. *)
(* pc of a frame:                                                          *)
(*   created   the generator was created, its body has not run             *)
(*   loop      inside the for loop, i iterations done                      *)
(*   finished  the trajectory was yielded                                  *)

One == 100000000
ClipMax == 99990000
G == -100
DefaultInitialVelocity == 1000

MaxSimIterations == 3
MaxSimInterval == 2
GridSize == 2

RunIds == 1 .. Len(runs)
Cells == (0 .. GridSize - 1) \X (0 .. GridSize - 1)

\* gradient fields, a pair <<x_slope, y_slope>> per pixel <<py, px>>: a flat
\* surface, two tilted planes and a bowl
GradientFields ==
    { [c \in Cells |-> <<0, 0>>],
      [c \in Cells |-> <<1, 0>>],
      [c \in Cells |-> <<-1, 1>>],
      [c \in Cells |-> <<IF c[2] = 0 THEN -1 ELSE 1, IF c[1] = 0 THEN -1 ELSE 1>>] }

\* start_x and start_y: 0.0, 0.5, 0.999995 and 1.0
StartChoices == {0, One \div 2, One - 500, One}

SimulationConfigs ==
    [iterations : 0 .. MaxSimIterations,
     start_x : StartChoices,
     start_y : StartChoices,
     initial_velocity : {DefaultInitialVelocity, -DefaultInitialVelocity}]

SimInputs ==
    [gradient : GradientFields, config : SimulationConfigs,
     progress_interval : 1 .. MaxSimInterval]

\* a run on another surface, with another configuration
OtherInput ==
    [gradient |-> [c \in Cells |-> <<1, 0>>],
     config |-> [iterations |-> 2, start_x |-> 0, start_y |-> One - 500,
                 initial_velocity |-> DefaultInitialVelocity],
     progress_interval |-> 1]

NewFrame(in) ==
    [gradient |-> in.gradient, config |-> in.config,
     progress_interval |-> in.progress_interval,
     pc |-> "created", i |-> 0, position |-> <<0, 0>>, velocity |-> <<0, 0>>,
     trajectory |-> << >>, yielded |-> << >>]

Clip(x, lo, hi) == IF x < lo THEN lo ELSE IF x > hi THEN hi ELSE x

\* get_gradient_at: nearest pixel, indices clipped to the grid
GetGradientAt(gradient, x, y) ==
    LET px == Clip((x * GridSize) \div One, 0, GridSize - 1)
        py == Clip((y * GridSize) \div One, 0, GridSize - 1)
    IN gradient[<<py, px>>]

\* get_acceleration_from_slope, horizontal component:
\* G * sin(t) * cos(t) with t = arctan(slope), which is G * slope / (1 + slope^2)
GetAccelerationFromSlope(slope) == (G * slope) \div (1 + slope * slope)

\* the boundary check of one dimension: position -= velocity takes the whole
\* vector back, then the velocity of that dimension changes sign
Bounce(b, dim) ==
    IF b.position[dim] >= One \/ b.position[dim] < 0
    THEN [position |-> <<b.position[1] - b.velocity[1], b.position[2] - b.velocity[2]>>,
          velocity |-> [b.velocity EXCEPT ![dim] = -b.velocity[dim]]]
    ELSE b

\* the velocity after the acceleration of this iteration was added
UpdatedVelocity(f) ==
    LET slopes == GetGradientAt(f.gradient, f.position[1], f.position[2]) IN
    <<f.velocity[1] + GetAccelerationFromSlope(slopes[1]),
      f.velocity[2] + GetAccelerationFromSlope(slopes[2])>>

\* position += velocity, before the boundary checks
TentativePosition(f) ==
    <<f.position[1] + UpdatedVelocity(f)[1], f.position[2] + UpdatedVelocity(f)[2]>>

\* variant: the progress event counts the iterations from one
StepFrame_CountsFromOne(f) ==
    LET b == Bounce(Bounce([position |-> TentativePosition(f),
                            velocity |-> UpdatedVelocity(f)], 1), 2)
        clipped == <<Clip(b.position[1], 0, ClipMax), Clip(b.position[2], 0, ClipMax)>>
        traj == Append(f.trajectory, clipped)
        n == f.config.iterations
    IN [f EXCEPT
          !.velocity = b.velocity,
          !.position = clipped,
          !.trajectory = traj,
          !.i = f.i + 1,
          !.yielded =
              IF (f.i + 1) % f.progress_interval = 0
              THEN Append(@, [kind |-> "progress",
                              current_iteration |-> f.i + 1,
                              total_iterations |-> n,
                              progress_percent |-> Pct((f.i + 1) * 100, n),
                              trajectory_points |-> Len(traj)])
              ELSE @]

\* the body of the for loop for index f.i, its yield included
StepFrame(f) ==
    LET b == Bounce(Bounce([position |-> TentativePosition(f),
                            velocity |-> UpdatedVelocity(f)], 1), 2)
        clipped == <<Clip(b.position[1], 0, ClipMax), Clip(b.position[2], 0, ClipMax)>>
        traj == Append(f.trajectory, clipped)
        n == f.config.iterations
    IN [f EXCEPT
          !.velocity = b.velocity,
          !.position = clipped,
          !.trajectory = traj,
          !.i = f.i + 1,
          !.yielded =
              IF f.i > 0 /\ f.i % f.progress_interval = 0
              THEN Append(@, [kind |-> "progress",
                              current_iteration |-> f.i,
                              total_iterations |-> n,
                              progress_percent |-> Pct(f.i * 100, n),
                              trajectory_points |-> Len(traj)])
              ELSE @]

\* the first resumption: the statements before the loop
SimBegin(r) ==
    /\ runs[r].pc = "created"
    /\ runs' = [runs EXCEPT
          ![r].pc = "loop",
          ![r].position = <<runs[r].config.start_x, runs[r].config.start_y>>,
          ![r].velocity = <<runs[r].config.initial_velocity,
                            runs[r].config.initial_velocity>>,
          ![r].trajectory = <<<<runs[r].config.start_x, runs[r].config.start_y>>>>]
    /\ UNCHANGED <<jobVars, sockets>>

\* variant: velocity is one variable shared by all generators, the frame
\* of the last one holding it
SimStep_SharedVelocity(r) ==
    /\ runs[r].pc = "loop"
    /\ runs[r].i < runs[r].config.iterations
    /\ runs' = [runs EXCEPT
          ![r] = StepFrame([runs[r] EXCEPT !.velocity = runs[Len(runs)].velocity])]
    /\ UNCHANGED <<jobVars, sockets>>

SimStep(r) ==
    /\ runs[r].pc = "loop"
    /\ runs[r].i < runs[r].config.iterations
    /\ runs' = [runs EXCEPT ![r] = StepFrame(runs[r])]
    /\ UNCHANGED <<jobVars, sockets>>

\* variant: the array yielded leaves out the start position
SimReturn_OmitsStart(r) ==
    /\ runs[r].pc = "loop"
    /\ runs[r].i >= runs[r].config.iterations
    /\ runs' = [runs EXCEPT
          ![r].pc = "finished",
          ![r].yielded = Append(@, [kind |-> "trajectory",
                                    points |-> Tail(runs[r].trajectory)])]
    /\ UNCHANGED <<jobVars, sockets>>

\* the loop is exhausted: yield np.array(trajectory)
SimReturn(r) ==
    /\ runs[r].pc = "loop"
    /\ runs[r].i >= runs[r].config.iterations
    /\ runs' = [runs EXCEPT
          ![r].pc = "finished",
          ![r].yielded = Append(@, [kind |-> "trajectory",
                                    points |-> runs[r].trajectory])]
    /\ UNCHANGED <<jobVars, sockets>>

\* two generators on the same surface with the same configuration, and a
\* third on another surface
SimInit ==
    /\ InitJobs
    /\ sockets = << >>
    /\ \E in \in SimInputs : runs = <<NewFrame(in), NewFrame(in), NewFrame(OtherInput)>>

SimNext ==
    \/ \E r \in RunIds : SimBegin(r)
    \/ \E r \in RunIds : SimStep(r)
    \/ \E r \in RunIds : SimReturn(r)

SimSpec == SimInit /\ [][SimNext]_vars

----------------------------------------------------------------------------
(* Properties of the integrator *)

(* C17: for every iteration count and progress interval the elements       *)
(* yielded by a generator are progress events only, until it finishes by   *)
(* yielding the trajectory, once and last, with iterations + 1 points.     *)
C17_TrajectoryYieldedLast ==
    \A r \in RunIds :
        LET y == runs[r].yielded IN
        IF runs[r].pc = "finished"
        THEN /\ y # << >>
             /\ y[Len(y)].kind = "trajectory"
             /\ Len(y[Len(y)].points) = runs[r].config.iterations + 1
             /\ \A k \in 1 .. Len(y) - 1 : y[k].kind = "progress"
        ELSE \A k \in 1 .. Len(y) : y[k].kind = "progress"

\* a finished generator that yielded two progress events before the
\* trajectory
C17_Witness ==
    \E r \in RunIds :
        /\ runs[r].pc = "finished"
        /\ Len(runs[r].yielded) = 3
        /\ runs[r].config.iterations = 3

InUnitSquare(p) == p[1] >= 0 /\ p[1] < One /\ p[2] >= 0 /\ p[2] < One

(* C18: every point of a trajectory, the start position included, lies in  *)
(* [0,1) x [0,1), for every gradient field and start_x, start_y in [0,1].  *)
C18_TrajectoryInUnitSquare ==
    \A r \in RunIds :
        \A k \in 1 .. Len(runs[r].trajectory) : InUnitSquare(runs[r].trajectory[k])

OutOfBounds(x) == x >= One \/ x < 0

(* C19: in an iteration whose tentative position is out of bounds on       *)
(* exactly one axis, that axis keeps its position of before the iteration  *)
(* and its velocity changes sign, and the other axis advances by its       *)
(* updated velocity and keeps that velocity.                               *)
C19_SingleAxisBounce ==
    [][\A r \in RunIds : \A d \in {1, 2} :
          LET f == runs[r]
              o == 3 - d
          IN (SimStep(r) /\ OutOfBounds(TentativePosition(f)[d])
                         /\ ~OutOfBounds(TentativePosition(f)[o])) =>
                /\ runs'[r].position[d] = f.position[d]
                /\ runs'[r].velocity[d] = -UpdatedVelocity(f)[d]
                /\ runs'[r].position[o] = Clip(TentativePosition(f)[o], 0, ClipMax)
                /\ runs'[r].velocity[o] = UpdatedVelocity(f)[o]]_vars

SameInput(f, g) ==
    /\ f.gradient = g.gradient
    /\ f.config = g.config
    /\ f.progress_interval = g.progress_interval

C23_DualAxisBounce ==
    [][\A r \in RunIds :
          LET f == runs[r] IN
          (SimStep(r) /\ OutOfBounds(TentativePosition(f)[1])
                      /\ OutOfBounds(TentativePosition(f)[2])) =>
                /\ runs'[r].velocity[1] = -UpdatedVelocity(f)[1]
                /\ runs'[r].velocity[2] = -UpdatedVelocity(f)[2]
                /\ runs'[r].position = f.position]_vars

\* the progress events generator r has yielded so far, in order
ProgressYielded(r) == SelectSeq(runs[r].yielded, LAMBDA e : e.kind = "progress")

\* event e reports iteration c of a run of n iterations, with the
\* trajectory holding `points` points
ReportsIteration(e, c, n, points) ==
    /\ e.current_iteration = c
    /\ e.total_iterations = n
    /\ PctEq(e.progress_percent, Pct(c * 100, n))
    /\ e.trajectory_points = points

(* C24 as claimed: after k iterations the generator has yielded one        *)
(* progress event for every multiple m of progress_interval in 1..k, with  *)
(* current_iteration m, percent m / iterations * 100 and the number of     *)
(* trajectory points of that moment, and no other progress event.          *)
C24_EventAfterEveryIntervalSteps ==
    \A r \in RunIds :
        LET f == runs[r]
            ev == ProgressYielded(r)
        IN /\ Len(ev) = f.i \div f.progress_interval
           /\ \A m \in 1 .. Len(ev) :
                 ReportsIteration(ev[m], m * f.progress_interval,
                                  f.config.iterations, m * f.progress_interval + 1)

(* C24 amended: the events are those of the loop indices i, counted from   *)
(* zero, with i > 0 and i a multiple of progress_interval: the event of    *)
(* index i is yielded after i + 1 iterations, with current_iteration i,    *)
(* percent i / iterations * 100 and i + 2 trajectory points, and no event  *)
(* is yielded for index 0 or for i = iterations.  It is the event the      *)
(* background run receives (SimulationProgress).                           *)
C24_EventPerLoopIndex ==
    \A r \in RunIds :
        LET f == runs[r]
            ev == ProgressYielded(r)
        IN /\ Len(ev) = (IF f.i = 0 THEN 0 ELSE (f.i - 1) \div f.progress_interval)
           /\ \A m \in 1 .. Len(ev) :
                 /\ ReportsIteration(ev[m], m * f.progress_interval,
                                     f.config.iterations, m * f.progress_interval + 2)
                 /\ ev[m].trajectory_points =
                       SimulationProgress(m * f.progress_interval,
                                          f.config.iterations).trajectory_points
                 /\ m * f.progress_interval < f.config.iterations

\* a generator of three iterations with interval 2 has yielded its only
\* progress event, for index 2, with four trajectory points
C24_Witness ==
    \E r \in RunIds :
        /\ runs[r].config.iterations = 3 /\ runs[r].progress_interval = 2
        /\ runs[r].i = 3
        /\ Len(ProgressYielded(r)) = 1
        /\ ProgressYielded(r)[1].current_iteration = 2
        /\ ProgressYielded(r)[1].trajectory_points = 4

----------------------------------------------------------------------------
(* Properties of a job's error and progress *)

(* C25: a job's error is set if and only if its status is Failed, so the   *)
(* status query reports no error for a Pending, Processing or Completed    *)
(* job.                                                                    *)
C25_ErrorIffFailed ==
    /\ \A j \in JobIds : (error[j] # None) <=> (status[j] = FAILED)
    /\ (response.op = "status" /\ response.code = 200)
          => ((response.error # None) <=> (response.status = Some(FAILED)))

(* C27: while a job is Processing, up to the step that makes it Completed  *)
(* or Failed, its progress, which is what a status query returns, never    *)
(* decreases and lies within [0, 100].                                     *)
C27_ProgressMonotone ==
    [][\A j \in JobIds :
          status[j] = PROCESSING =>
              /\ PctLe(progress[j], progress'[j])
              /\ PctLe(Pct0, progress'[j])
              /\ PctLe(progress'[j], Pct100)]_vars

----------------------------------------------------------------------------
(* The renderer (core/drawing.py), one loop iteration at a time.  In        *)
(* RenderSpec each element of runs is the frame of one call of              *)
(* render_trajectory_to_image ("plain") or render_trajectory_with_velocity  *)
(* ("velocity") on the default canvas.  Trajectory coordinates are held in  *)
(* hundredths of the unit square and canvas coordinates in whole pixels:    *)
(* for the coordinates used here the float products and square roots of the *)
(* code are exact, so the comparisons are made on the squares.              *)

RenderOne == 100
MaxPoints == 4

\* trajectory points: 40, 80 and 88 pixels from the origin along x, and one
\* point 80 pixels from the origin off the axes
RenderPoints == {<<0, 0>>, <<5, 0>>, <<10, 0>>, <<11, 0>>, <<6, 8>>}

\* Nx2 arrays; simulate always returns at least the start point
Trajectories == UNION {[1 .. n -> RenderPoints] : n \in 1 .. MaxPoints}

RenderKinds == {"plain", "velocity"}

\* points = trajectory * size
ScalePoints(traj, size) ==
    [k \in 1 .. Len(traj) |->
        <<(traj[k][1] * size) \div RenderOne, (traj[k][2] * size) \div RenderOne>>]

\* (x2 - x1)**2 + (y2 - y1)**2, the square of distance
Distance2(p, q) == (q[1] - p[1]) * (q[1] - p[1]) + (q[2] - p[2]) * (q[2] - p[2])

\* distance > size * 0.1
TooLong(p, q, size) == Distance2(p, q) > (size \div 10) * (size \div 10)

RECURSIVE MaxVelocity2(_, _)
\* the square of velocities.max(): velocities[0] is 0 and velocities[k] the
\* length of the segment that ends at point k
MaxVelocity2(points, k) ==
    IF k < 2 THEN 0
    ELSE LET rest == MaxVelocity2(points, k - 1)
             here == Distance2(points[k - 1], points[k])
         IN IF here > rest THEN here ELSE rest

\* max(1, int(width)): the plain renderer has width line_width = 0.5; the
\* velocity renderer has min_width + vel_normalized[i+1] * (max_width -
\* min_width) = 0.5 + 2.5 * v / vmax, whose integer part is 3 when v = vmax,
\* 2 when v / vmax >= 0.6, and below 2 otherwise
LineWidth(f, p, q) ==
    LET v2 == Distance2(p, q)
        max2 == MaxVelocity2(f.points, Len(f.points))
    IN IF f.kind = "plain" \/ max2 = 0 THEN 1
       ELSE IF v2 >= max2 THEN 3
       ELSE IF 25 * v2 >= 9 * max2 THEN 2
       ELSE 1

NewRender(kind, traj) ==
    [kind |-> kind, trajectory |-> traj, size |-> RenderSize, points |-> << >>,
     i |-> 0, lines |-> << >>, pc |-> "called"]

\* a variant of the loop body that leaves the loop at the first long segment
DrawSegment_StopsAtSkip(f) ==
    LET p == f.points[f.i + 1]
        q == f.points[f.i + 2]
    IN IF TooLong(p, q, f.size)
       THEN [f EXCEPT !.i = Len(f.points) - 1]
       ELSE [f EXCEPT !.i = @ + 1,
                      !.lines = Append(@, [segment |-> f.i, from |-> p, to |-> q,
                                           width |-> LineWidth(f, p, q)])]

\* one iteration of "for i in range(len(points) - 1)": continue on a long
\* segment, draw.line otherwise
DrawSegment(f) ==
    LET p == f.points[f.i + 1]
        q == f.points[f.i + 2]
    IN IF TooLong(p, q, f.size)
       THEN [f EXCEPT !.i = @ + 1]
       ELSE [f EXCEPT !.i = @ + 1,
                      !.lines = Append(@, [segment |-> f.i, from |-> p, to |-> q,
                                           width |-> LineWidth(f, p, q)])]

\* the blank canvas and the scaling of the trajectory
RenderBegin(r) ==
    /\ runs[r].pc = "called"
    /\ runs' = [runs EXCEPT
          ![r].points = ScalePoints(runs[r].trajectory, runs[r].size),
          ![r].pc = "loop"]
    /\ UNCHANGED <<jobVars, sockets>>

RenderStep(r) ==
    /\ runs[r].pc = "loop"
    /\ runs[r].i < Len(runs[r].points) - 1
    /\ runs' = [runs EXCEPT ![r] = DrawSegment(runs[r])]
    /\ UNCHANGED <<jobVars, sockets>>

\* return img
RenderReturn(r) ==
    /\ runs[r].pc = "loop"
    /\ runs[r].i >= Len(runs[r].points) - 1
    /\ runs' = [runs EXCEPT ![r].pc = "returned"]
    /\ UNCHANGED <<jobVars, sockets>>

RenderInit ==
    /\ InitJobs
    /\ sockets = << >>
    /\ \E kind \in RenderKinds, traj \in Trajectories :
          runs = <<NewRender(kind, traj)>>

RenderNext ==
    \/ \E r \in RunIds : RenderBegin(r)
    \/ \E r \in RunIds : RenderStep(r)
    \/ \E r \in RunIds : RenderReturn(r)

RenderSpec == RenderInit /\ [][RenderNext]_vars

\* segment k (0-based) of a call has been drawn
Drawn(f, k) == \E n \in 1 .. Len(f.lines) : f.lines[n].segment = k

\* the square of the length of segment k in canvas coordinates, in
\* hundredths of a pixel, from the trajectory the call was given
CanvasLength2(f, k) ==
    LET dx == (f.trajectory[k + 2][1] - f.trajectory[k + 1][1]) * f.size
        dy == (f.trajectory[k + 2][2] - f.trajectory[k + 1][2]) * f.size
    IN dx * dx + dy * dy

\* the square of 10% of canvas_size, in hundredths of a pixel
TenPercent2(f) == ((f.size * RenderOne) \div 10) * ((f.size * RenderOne) \div 10)

(* C22: the renderer draws the segment between consecutive trajectory      *)
(* points i and i+1 if and only if its Euclidean length in canvas          *)
(* coordinates is at most 10% of canvas_size, whatever segments were       *)
(* skipped before it; it draws no segment twice, and when it returns it    *)
(* has gone through every segment.                                         *)
C22_SegmentDrawnIffShort ==
    \A r \in RunIds :
        LET f == runs[r] IN
        /\ \A k \in 0 .. f.i - 1 :
              Drawn(f, k) <=> CanvasLength2(f, k) <= TenPercent2(f)
        /\ \A n, m \in 1 .. Len(f.lines) :
              f.lines[n].segment = f.lines[m].segment => n = m
        /\ f.pc = "returned" => f.i = Len(f.trajectory) - 1

\* a call has returned having skipped a segment and drawn a later one, one
\* of them exactly 10% of the canvas long
C22_Witness ==
    \E r \in RunIds :
        LET f == runs[r] IN
        /\ f.pc = "returned"
        /\ \E k \in 0 .. f.i - 1, n \in 0 .. f.i - 1 :
              /\ k < n
              /\ ~Drawn(f, k)
              /\ Drawn(f, n)
              /\ CanvasLength2(f, n) = TenPercent2(f)

----------------------------------------------------------------------------
(* Properties of a websocket connection *)

\* the terminal message type that goes with a terminal status
MatchingType(st) == IF st = COMPLETED THEN "complete" ELSE "error"

(* C21: on a connection to a registered job the first message sent is the  *)
(* status; when that status is Completed or Failed the second message is   *)
(* the matching terminal one; after the status only progress messages (and *)
(* heartbeats) are sent until one terminal message, which is the last      *)
(* message of the connection.                                              *)
C21_MessageOrder ==
    \A s \in SocketIds :
        LET log == sockets[s].sent IN
        log[1].type = "status" =>
            /\ (log[1].status \in {COMPLETED, FAILED} /\ Len(log) >= 2)
                  => log[2].type = MatchingType(log[1].status)
            /\ \A k \in 2 .. Len(log) :
                  /\ log[k].type \in {"progress", "complete", "error"}
                  /\ IsTerminalMessage(log[k])
                        => (k = Len(log) /\ sockets[s].pc = "closed")

(* C26: a complete message is sent on a connection only while the job is   *)
(* Completed and an error message only while it is Failed; none is sent    *)
(* while the job is Processing.                                            *)
C26_TerminalMatchesStatus ==
    [][\A s \in SocketIds :
          LET log == sockets'[s].sent
              j == sockets[s].job
          IN (Len(log) = Len(sockets[s].sent) + 1 /\ IsTerminalMessage(log[Len(log)]))
                => status[j] = (IF log[Len(log)].type = "complete"
                                THEN COMPLETED ELSE FAILED)]_vars

(* C28: when the handler has returned it has called close on the           *)
(* connection exactly once, whatever path it took.                         *)
C28_ClosedOnce ==
    \A s \in SocketIds : sockets[s].pc = "closed" => sockets[s].closes = 1

====
